---- MODULE Spec2Model ----
(***************************************************************************)
(* Model of monopole_radio.py: the three stage functions                   *)
(* (read_tucci_source_distrib, get_mean_number_of_source_over_4pi,         *)
(* get_cumulative_monopole) and the module-level driver script.            *)
(*                                                                         *)
(* Numbers.  Fluxes, densities, frequencies and distortion values read     *)
(* from the tables are integers.  Every derived quantity is kept exactly   *)
(* in fixed point with scale FP = 2 (the integer x stands for x / 2),      *)
(* which is what the /2 of numpy's centered difference needs.  A mean      *)
(* count is the fixed-point coefficient of pi.  A power-law value, which   *)
(* is irrational in general, is kept as its sign and the reduced fraction  *)
(* of its square.  Arithmetic is exact: IEEE rounding is not modelled.     *)
(***************************************************************************)
EXTENDS Integers, Sequences, FiniteSets, TLC

VARIABLES
    mode,     \* "script": the module is run; "call": one function is called
    pc,       \* statement about to execute (source line), or idle/returned/done/aborted
    ret,      \* where the active function returns to
    err,      \* the exception that ended the run, "" when none
    disk,     \* the four input files: [status, rows]
    dirs,     \* directories that exist
    loads,    \* number of np.loadtxt calls made on each file
    frame,    \* arguments and locals of the active function
    retval,   \* value of the last return statement
    g,        \* module-level names of the driver
    plt,      \* pyplot state: open figures (current one last), next number, call log
    saved,    \* figures handed to savefig, in order: [path, num, curves]
    stdout    \* lines printed

vars == <<mode, pc, ret, err, disk, dirs, loads, frame, retval, g, plt, saved, stdout>>

(***************************** bounds **************************************)
MaxRows == 3      \* rows of a flux table
MaxM0 == 3        \* largest |monopole| (fixed point) tried on the power law
NumFreq == 2      \* points of the frequency grid (the script uses 1000)

Fluxes == 0..3              \* flux values of a table passed to a function
Densities == 0..1           \* density values of a table passed to a function
FileFluxes == 1..3          \* flux values of the table on disk (ascending)
FileDensities == {1}        \* density values of the table on disk
DistFreqs == {1, 2}         \* frequency values of a distortion table
DistVals == {-1, 1}           \* values of a distortion table
PlotNames == {"None", "p.png"}   \* plot_fname of a direct call

(*************************** program constants *****************************)
ref_freq_radio_GHz == 148
tucci_file_name == "ns_148GHz_modC2Ex.dat"
mu_file_name == "distorsion/mu.txt"
y_file_name == "distorsion/y.txt"
relcorr_file_name == "distorsion/relcorr.txt"
Files == {tucci_file_name, mu_file_name, y_file_name, relcorr_file_name}
None == "None"
ScriptPaths ==
    {"figs/source_distrib_radio.png", "figs/mean_number_source", "figs/integrand.png",
     "figs/cumulative_monopole.png", "figs/monopole_vs_freq.png"}
FP == 2            \* fixed-point scale: x stands for x / FP
freq_lo == 1
freq_hi == 3000
alpha2 == -1       \* twice the spectral index alpha = -0.5

(****************************** arithmetic *********************************)
Abs(x) == IF x < 0 THEN -x ELSE x
Sign(x) == IF x < 0 THEN -1 ELSE IF x = 0 THEN 0 ELSE 1

RECURSIVE GCD(_, _)
GCD(a, b) == IF b = 0 THEN a ELSE GCD(b, a % b)

\* A positive rational <<p, q>> in lowest terms.
RNorm(r) ==
    LET d == GCD(r[1], r[2]) IN <<r[1] \div d, r[2] \div d>>

\* Product of two rationals in lowest terms, reduced crosswise first.
RMul(r, s) ==
    LET a == RNorm(<<r[1], s[2]>>)
        b == RNorm(<<s[1], r[2]>>)
    IN  IF r[1] = 0 \/ s[1] = 0 THEN <<0, 1>> ELSE <<a[1] * b[1], a[2] * b[2]>>

RECURSIVE IPow(_, _)
IPow(x, n) == IF n = 0 THEN 1 ELSE x * IPow(x, n - 1)

\* x ** (a2/2) for a positive rational x, returned as its square x ** a2.
PowHalfSq(x, a2) ==
    IF a2 >= 0 THEN <<IPow(x[1], a2), IPow(x[2], a2)>>
    ELSE <<IPow(x[2], -a2), IPow(x[1], -a2)>>

(******************************* numpy *************************************)
\* np.linspace(lo, hi, num): num evenly spaced rationals, endpoints included.
linspace(lo, hi, num) ==
    [k \in 1..num |->
        IF num = 1 THEN <<lo, 1>>
        ELSE RNorm(<<lo * (num - 1) + (k - 1) * (hi - lo), num - 1>>)]

\* A plausible slip: a forward difference at every index but the last.
gradient_forward(f) ==
    LET n == Len(f) IN
    [i \in 1..n |-> IF i = n THEN FP * (f[n] - f[n - 1]) ELSE FP * (f[i + 1] - f[i])]

\* A plausible slip: the differences taken the wrong way round.
gradient_reversed(f) ==
    LET n == Len(f) IN
    [i \in 1..n |->
        IF i = 1 THEN FP * (f[1] - f[2])
        ELSE IF i = n THEN FP * (f[n - 1] - f[n])
        ELSE (FP * (f[i - 1] - f[i + 1])) \div 2]

\* np.gradient(f) with unit spacing, for Len(f) >= 2 (fixed point):
\* one-sided differences at the two ends, centered differences inside.
gradient(f) ==
    LET n == Len(f) IN
    [i \in 1..n |->
        IF i = 1 THEN FP * (f[2] - f[1])
        ELSE IF i = n THEN FP * (f[n] - f[n - 1])
        ELSE (FP * (f[i + 1] - f[i - 1])) \div 2]

\* np.gradient raises ValueError on fewer than edge_order + 1 = 2 elements.
gradient_raises(f) == Len(f) < 2

RECURSIVE cumsum_from(_, _, _)
cumsum_from(a, i, out) ==
    IF i > Len(a) THEN out
    ELSE cumsum_from(a, i + 1, Append(out, (IF i = 1 THEN 0 ELSE out[i - 1]) + a[i]))

\* A plausible slip: an exclusive prefix sum.
cumsum_exclusive(a) ==
    cumsum_from([i \in 1..Len(a) |-> IF i = 1 THEN 0 ELSE a[i - 1]], 1, <<>>)

\* np.cumsum(a): running total, the element itself included.
cumsum(a) == cumsum_from(a, 1, <<>>)

RECURSIVE np_sum_from(_, _)
np_sum_from(a, i) == IF i > Len(a) THEN 0 ELSE a[i] + np_sum_from(a, i + 1)

\* np.sum(a)
np_sum(a) == np_sum_from(a, 1)

Neg(a) == [i \in 1..Len(a) |-> -a[i]]

\* A plausible slip: the step subtracted instead of multiplied.
mean_numbers_minus(S_, dNdSdOmega_, dS) ==
    [i \in 1..Len(S_) |-> dNdSdOmega_[i] * 4 * FP - dS[i]]

\* dNdSdOmega * 4*np.pi * dS  (coefficient of pi, fixed point)
mean_numbers(S_, dNdSdOmega_, dS) ==
    [i \in 1..Len(S_) |-> dNdSdOmega_[i] * 4 * dS[i]]

\* dS * S * dNdSdOmega  (fixed point)
integrand(S_, dNdSdOmega_, dS) ==
    [i \in 1..Len(S_) |-> dS[i] * S_[i] * dNdSdOmega_[i]]

\* dNdSdOmega * S ** (5/2), non-negative for the tables used: kept as its square.
source_curve(S_, dNdSdOmega_) ==
    [i \in 1..Len(S_) |-> dNdSdOmega_[i] * dNdSdOmega_[i] * IPow(S_[i], 5)]

\* A plausible slip: the exponent with the wrong sign.
power_law_rising(monopole, freq) ==
    LET x == RNorm(<<freq[1], freq[2] * ref_freq_radio_GHz>>)
        p == RNorm(PowHalfSq(x, -alpha2))
    IN  [sgn |-> Sign(monopole),
         sq |-> RMul(RNorm(<<monopole * monopole, FP * FP>>), p)]

\* monopole * (freq_GHz / ref_freq_radio_GHz) ** alpha, for one frequency:
\* the sign and the reduced square of the result.
power_law(monopole, freq) ==
    LET x == RNorm(<<freq[1], freq[2] * ref_freq_radio_GHz>>)
        p == RNorm(PowHalfSq(x, alpha2))
    IN  [sgn |-> Sign(monopole),
         sq |-> RMul(RNorm(<<monopole * monopole, FP * FP>>), p)]

\* np.loadtxt(fname): raises on a missing or unparsable file; otherwise the
\* array, with axes of length one squeezed (ndmin = 0).
loadtxt(c) ==
    IF c.status = "missing" THEN [exc |-> "FileNotFoundError", ndim |-> 0, rows |-> <<>>]
    ELSE IF c.status = "malformed" THEN [exc |-> "ValueError", ndim |-> 0, rows |-> <<>>]
    ELSE [exc |-> "", ndim |-> IF Len(c.rows) >= 2 THEN 2 ELSE 1, rows |-> c.rows]

\* tucci[:, j]
column(rows, j) == [i \in 1..Len(rows) |-> rows[i][j]]

\* a, b = np.loadtxt(fname, unpack=True): the two columns; a one-row file
\* gives two scalars (kept as sequences of length one), an empty one cannot
\* be unpacked.
loadtxt_unpack(c) ==
    LET a == loadtxt(c) IN
    IF a.exc # "" THEN [exc |-> a.exc, a |-> <<>>, b |-> <<>>]
    ELSE IF Len(a.rows) = 0 THEN [exc |-> "ValueError", a |-> <<>>, b |-> <<>>]
    ELSE [exc |-> "", a |-> column(a.rows, 1), b |-> column(a.rows, 2)]

(******************************* pyplot ************************************)
NoPlt == [figs |-> <<>>, next |-> 1, log |-> <<>>]

\* plt.figure(): a new figure, which becomes the current one.
figure(p) ==
    [figs |-> Append(p.figs, [num |-> p.next, curves |-> <<>>]),
     next |-> p.next + 1,
     log |-> Append(p.log, [op |-> "figure", num |-> p.next])]

\* plt.gcf(): the current figure, created when there is none.
gcf(p) == IF p.figs = <<>> THEN figure(p) ELSE p

Cur(p) == p.figs[Len(p.figs)]

\* plt.plot(x, y) on the current figure.
plot(p, x, y) ==
    LET q == gcf(p) IN
    [q EXCEPT !.figs[Len(q.figs)].curves = Append(@, [x |-> x, y |-> y])]

\* plt.plot raises ValueError when x and y differ in length.
plot_raises(x, y) == Len(x) # Len(y)

\* The directory a path lies in: the script's paths lie in figs/.
dirname(path) == IF path \in ScriptPaths THEN "figs" ELSE "."

\* plt.savefig raises when the directory of the path does not exist.
savefig_raises(path, d) == dirname(path) \notin d

\* plt.savefig(path): the state of pyplot after it.
savefig(p) ==
    LET q == gcf(p) IN [q EXCEPT !.log = Append(@, [op |-> "savefig", num |-> Cur(q).num])]

\* plt.clf()
clf(p) ==
    LET q == gcf(p) IN
    [q EXCEPT !.figs[Len(q.figs)].curves = <<>>,
              !.log = Append(@, [op |-> "clf", num |-> Cur(q).num])]

\* A plausible slip: the figure left open.
close_forgotten(p) == p

\* plt.close(): closes the current figure, if any.
close(p) ==
    IF p.figs = <<>> THEN p
    ELSE [p EXCEPT !.figs = SubSeq(@, 1, Len(@) - 1),
                   !.log = Append(@, [op |-> "close", num |-> Cur(p).num])]

(*************************** inputs and Init *******************************)
Missing == [status |-> "missing", rows |-> <<>>]
Malformed == [status |-> "malformed", rows |-> <<>>]
Table(rows) == [status |-> "ok", rows |-> rows]

\* The elements of a set of integers in ascending order.
Ascending(T) ==
    CHOOSE s \in [1..Cardinality(T) -> T] : \A i, j \in 1..Cardinality(T) : i < j => s[i] < s[j]

Rows(a, b) == [i \in 1..Len(a) |-> <<a[i], b[i]>>]

\* Tables with an ascending first column.
AscendingTables(firsts, seconds, maxrows) ==
    UNION { { Rows(Ascending(T), b) : b \in [1..Cardinality(T) -> seconds] } :
            T \in { U \in SUBSET firsts : Cardinality(U) <= maxrows } }

\* Pairs of sequences of one length, in any order.
AnyTables(firsts, seconds, maxrows) ==
    UNION { { Rows(a, b) : a \in [1..n -> firsts], b \in [1..n -> seconds] } : n \in 0..maxrows }

TucciFiles == {Missing, Malformed} \cup { Table(r) : r \in AscendingTables(FileFluxes, FileDensities, MaxRows) }
DistFiles == {Missing, Malformed} \cup { Table(r) : r \in AscendingTables(DistFreqs, DistVals, MaxRows) }
CallFiles == {Missing, Malformed} \cup { Table(r) : r \in AnyTables(Fluxes, Densities, MaxRows) }

\* Frequencies the power law is tried on: the ends of the grid, a point of the
\* script's 1000-point grid, the reference frequency and twice it.
FreqSamples ==
    {<<freq_lo, 1>>, <<freq_hi, 1>>, <<3998, 999>>,
     <<ref_freq_radio_GHz, 1>>, <<2 * ref_freq_radio_GHz, 1>>}

NoFrame ==
    [fn |-> "", S |-> <<>>, dNdSdOmega |-> <<>>, plot_fname |-> None, dS |-> <<>>, out |-> <<>>]

NoGlobals ==
    [S |-> <<>>, dNdSdOmega |-> <<>>, mean_numbers_per_patch |-> <<>>, Ntot_sources |-> 0,
     monopole_fSmax |-> <<>>, monopole |-> 0, freq_GHz |-> <<>>, mono_radio |-> <<>>,
     nu |-> <<>>, mudist |-> <<>>, ydist |-> <<>>, relcorr |-> <<>>]

InitCommon ==
    /\ ret = "" /\ err = ""
    /\ loads = [f \in Files |-> 0]
    /\ frame = NoFrame
    /\ retval = [a |-> <<>>, b |-> <<>>]
    /\ g = NoGlobals
    /\ plt = NoPlt
    /\ saved = <<>>
    /\ stdout = <<>>

\* python monopole_radio.py, on any content of the four input files.
InitScript ==
    /\ mode = "script" /\ pc = "L93"
    /\ disk \in [Files -> TucciFiles \cup DistFiles]
    /\ disk[tucci_file_name] \in TucciFiles
    /\ \A f \in Files \ {tucci_file_name} : disk[f] \in DistFiles
    /\ dirs \in {{"."}, {".", "figs"}}
    /\ InitCommon

\* One of the functions called on its own, on inputs chosen at the call.
InitCall ==
    /\ mode = "call" /\ pc = "idle"
    /\ disk = [f \in Files |-> Missing]
    /\ dirs = {"."}
    /\ InitCommon

Init == InitScript \/ InitCall

(*************************** statement helpers *****************************)
At(l) == pc = l
Abort(e) == pc' = "aborted" /\ err' = e
Goto(l) == pc' = l /\ err' = err

Call(fn, entry, back, S_, d_, fname) ==
    /\ frame' = [fn |-> fn, S |-> S_, dNdSdOmega |-> d_, plot_fname |-> fname,
                 dS |-> <<>>, out |-> <<>>]
    /\ ret' = back
    /\ Goto(entry)

\* if plot_fname is not None: ... ; the label after the computation of a stage
AfterCompute(fname, plotting, returning) == IF fname # None THEN plotting ELSE returning

PltFigure(from, to) ==
    /\ pc = from
    /\ plt' = figure(plt)
    /\ Goto(to)
    /\ UNCHANGED <<mode, ret, disk, dirs, loads, frame, retval, g, saved, stdout>>

PltPlot(from, to, x, y) ==
    /\ pc = from
    /\ IF plot_raises(x, y)
       THEN plt' = gcf(plt) /\ Abort("ValueError")
       ELSE plt' = plot(plt, x, y) /\ Goto(to)
    /\ UNCHANGED <<mode, ret, disk, dirs, loads, frame, retval, g, saved, stdout>>

\* two plt.plot statements in a row: the dashed mirror -y, then y
PltPlot2(from, to, x, y) ==
    /\ pc = from
    /\ IF plot_raises(x, y)
       THEN plt' = gcf(plt) /\ Abort("ValueError")
       ELSE plt' = plot(plot(plt, x, Neg(y)), x, y) /\ Goto(to)
    /\ UNCHANGED <<mode, ret, disk, dirs, loads, frame, retval, g, saved, stdout>>

PltSavefig(from, to, path) ==
    /\ pc = from
    /\ IF savefig_raises(path, dirs)
       THEN plt' = gcf(plt) /\ saved' = saved /\ Abort("FileNotFoundError")
       ELSE /\ plt' = savefig(plt)
            /\ saved' = Append(saved, [path |-> path, num |-> Cur(gcf(plt)).num,
                                       curves |-> Cur(gcf(plt)).curves])
            /\ Goto(to)
    /\ UNCHANGED <<mode, ret, disk, dirs, loads, frame, retval, g, stdout>>

PltClf(from, to) ==
    /\ pc = from
    /\ plt' = clf(plt)
    /\ Goto(to)
    /\ UNCHANGED <<mode, ret, disk, dirs, loads, frame, retval, g, saved, stdout>>

PltClose(from, to) ==
    /\ pc = from
    /\ plt' = close(plt)
    /\ Goto(to)
    /\ UNCHANGED <<mode, ret, disk, dirs, loads, frame, retval, g, saved, stdout>>

Return(from, a, b) ==
    /\ pc = from
    /\ retval' = [a |-> a, b |-> b]
    /\ Goto(ret)
    /\ UNCHANGED <<mode, ret, disk, dirs, loads, frame, g, plt, saved, stdout>>

(********************* read_tucci_source_distrib ***************************)
\* lines 17-19: the load and the two column slices; lines 21: the test
R17 ==
    /\ pc = "R17"
    /\ loads' = [loads EXCEPT ![tucci_file_name] = @ + 1]
    /\ LET tucci == loadtxt(disk[tucci_file_name]) IN
       IF tucci.exc # "" THEN frame' = frame /\ Abort(tucci.exc)
       ELSE IF tucci.ndim # 2 THEN frame' = frame /\ Abort("IndexError")
       ELSE /\ frame' = [frame EXCEPT !.S = column(tucci.rows, 1),
                                      !.dNdSdOmega = column(tucci.rows, 2)]
            /\ Goto(AfterCompute(frame.plot_fname, "R22", "R34"))
    /\ UNCHANGED <<mode, ret, disk, dirs, retval, g, plt, saved, stdout>>

R22 == At("R22") /\ PltFigure("R22", "R26")
R26 == At("R26") /\ PltPlot("R26", "R30", frame.S, source_curve(frame.S, frame.dNdSdOmega))
R30 == At("R30") /\ PltSavefig("R30", "R31", frame.plot_fname)
R31 == At("R31") /\ PltClf("R31", "R32")
R32 == At("R32") /\ PltClose("R32", "R34")
R34 == At("R34") /\ Return("R34", frame.S, frame.dNdSdOmega)

(***************** get_mean_number_of_source_over_4pi **********************)
\* lines 51-52, and the test of line 54
M51 ==
    /\ pc = "M51"
    /\ IF gradient_raises(frame.S) THEN frame' = frame /\ Abort("ValueError")
       ELSE LET dS == gradient(frame.S) IN
            /\ frame' = [frame EXCEPT !.dS = dS,
                                      !.out = mean_numbers(frame.S, frame.dNdSdOmega, dS)]
            /\ Goto(AfterCompute(frame.plot_fname, "M55", "M67"))
    /\ UNCHANGED <<mode, ret, disk, dirs, loads, retval, g, plt, saved, stdout>>

M55 == At("M55") /\ PltFigure("M55", "M57")
M57 == At("M57") /\ PltPlot("M57", "M63", frame.S, frame.out)
M63 == At("M63") /\ PltSavefig("M63", "M64", frame.plot_fname)
M64 == At("M64") /\ PltClf("M64", "M65")
M65 == At("M65") /\ PltClose("M65", "M67")
M67 == At("M67") /\ Return("M67", frame.out, <<>>)

(************************ get_cumulative_monopole **************************)
\* lines 74-75, and the test of line 77
C74 ==
    /\ pc = "C74"
    /\ IF gradient_raises(frame.S) THEN frame' = frame /\ Abort("ValueError")
       ELSE LET dS == gradient(frame.S) IN
            /\ frame' = [frame EXCEPT !.dS = dS,
                                      !.out = cumsum(integrand(frame.S, frame.dNdSdOmega, dS))]
            /\ Goto(AfterCompute(frame.plot_fname, "C79", "C89"))
    /\ UNCHANGED <<mode, ret, disk, dirs, loads, retval, g, plt, saved, stdout>>

C79 == At("C79") /\ PltFigure("C79", "C81")
C81 == At("C81") /\ PltPlot("C81", "C85", frame.S, integrand(frame.S, frame.dNdSdOmega, frame.dS))
C85 == At("C85") /\ PltSavefig("C85", "C86", frame.plot_fname)
C86 == At("C86") /\ PltClf("C86", "C87")
C87 == At("C87") /\ PltClose("C87", "C89")
C89 == At("C89") /\ Return("C89", frame.out, <<>>)

(****************************** the script *********************************)
Script(from) == mode = "script" /\ pc = from

\* line 93: os.makedirs("figs", exist_ok=True)
L93 ==
    /\ Script("L93")
    /\ dirs' = dirs \cup {"figs"}
    /\ Goto("L95")
    /\ UNCHANGED <<mode, ret, disk, loads, frame, retval, g, plt, saved, stdout>>

\* line 95: the call
L95 ==
    /\ Script("L95")
    /\ Call("read_tucci_source_distrib", "R17", "L95_assign", <<>>, <<>>,
            "figs/source_distrib_radio.png")
    /\ UNCHANGED <<mode, disk, dirs, loads, retval, g, plt, saved, stdout>>

\* line 95: S, dNdSdOmega = ...
L95_assign ==
    /\ Script("L95_assign")
    /\ g' = [g EXCEPT !.S = retval.a, !.dNdSdOmega = retval.b]
    /\ Goto("L96")
    /\ UNCHANGED <<mode, ret, disk, dirs, loads, frame, retval, plt, saved, stdout>>

\* line 96: the call
L96 ==
    /\ Script("L96")
    /\ Call("get_mean_number_of_source_over_4pi", "M51", "L96_assign", g.S, g.dNdSdOmega,
            "figs/mean_number_source")
    /\ UNCHANGED <<mode, disk, dirs, loads, retval, g, plt, saved, stdout>>

\* line 96: mean_numbers_per_patch = ...
L96_assign ==
    /\ Script("L96_assign")
    /\ g' = [g EXCEPT !.mean_numbers_per_patch = retval.a]
    /\ Goto("L98")
    /\ UNCHANGED <<mode, ret, disk, dirs, loads, frame, retval, plt, saved, stdout>>

\* lines 98-99: the total and the line printed
L98 ==
    /\ Script("L98")
    /\ LET Ntot_sources == np_sum(g.mean_numbers_per_patch) IN
       /\ g' = [g EXCEPT !.Ntot_sources = Ntot_sources]
       /\ stdout' = Append(stdout, <<"Total number of radio sources", Ntot_sources>>)
    /\ Goto("L104")
    /\ UNCHANGED <<mode, ret, disk, dirs, loads, frame, retval, plt, saved>>

\* line 104: the call
L104 ==
    /\ Script("L104")
    /\ Call("get_cumulative_monopole", "C74", "L104_assign", g.S, g.dNdSdOmega,
            "figs/integrand.png")
    /\ UNCHANGED <<mode, disk, dirs, loads, retval, g, plt, saved, stdout>>

\* line 104: monopole_fSmax = ...
L104_assign ==
    /\ Script("L104_assign")
    /\ g' = [g EXCEPT !.monopole_fSmax = retval.a]
    /\ Goto("L106")
    /\ UNCHANGED <<mode, ret, disk, dirs, loads, frame, retval, plt, saved, stdout>>

L106 == Script("L106") /\ PltFigure("L106", "L108")
L108 == Script("L108") /\ PltPlot("L108", "L112", g.S, g.monopole_fSmax)
L112 == Script("L112") /\ PltSavefig("L112", "L113", "figs/cumulative_monopole.png")
L113 == Script("L113") /\ PltClf("L113", "L114")
L114 == Script("L114") /\ PltClose("L114", "L117")

\* a[-1]
last(a) == a[Len(a)]

\* lines 117-121: the unmasked monopole, the grid and the power law on it
L117 ==
    /\ Script("L117")
    /\ LET monopole == last(g.monopole_fSmax)
           freq_GHz == linspace(freq_lo, freq_hi, NumFreq)
       IN  g' = [g EXCEPT !.monopole = monopole,
                          !.freq_GHz = freq_GHz,
                          !.mono_radio = [k \in 1..Len(freq_GHz) |-> power_law(monopole, freq_GHz[k])]]
    /\ Goto("L126")
    /\ UNCHANGED <<mode, ret, disk, dirs, loads, frame, retval, plt, saved, stdout>>

\* A plausible slip: the failure of the load caught and passed over.
LoadDistortion_swallowed(from, to, file, name) ==
    /\ Script(from)
    /\ loads' = [loads EXCEPT ![file] = @ + 1]
    /\ LET t == loadtxt_unpack(disk[file]) IN
       IF t.exc # "" THEN g' = g /\ Goto(to)
       ELSE g' = [g EXCEPT !.nu = t.a, ![name] = t.b] /\ Goto(to)
    /\ UNCHANGED <<mode, ret, disk, dirs, frame, retval, plt, saved, stdout>>

\* nu, <name> = np.loadtxt(<file>, unpack=True)
LoadDistortion(from, to, file, name) ==
    /\ Script(from)
    /\ loads' = [loads EXCEPT ![file] = @ + 1]
    /\ LET t == loadtxt_unpack(disk[file]) IN
       IF t.exc # "" THEN g' = g /\ Abort(t.exc)
       ELSE g' = [g EXCEPT !.nu = t.a, ![name] = t.b] /\ Goto(to)
    /\ UNCHANGED <<mode, ret, disk, dirs, frame, retval, plt, saved, stdout>>

L126 == At("L126") /\ LoadDistortion("L126", "L127", mu_file_name, "mudist")
L127 == At("L127") /\ LoadDistortion("L127", "L128", y_file_name, "ydist")
L128 == At("L128") /\ LoadDistortion("L128", "L135", relcorr_file_name, "relcorr")

L135 == Script("L135") /\ PltFigure("L135", "L137")
\* lines 137-138, 139-140, 141-142: each curve and its mirror, against nu
L137 == Script("L137") /\ PltPlot2("L137", "L139", g.nu, g.ydist)
L139 == Script("L139") /\ PltPlot2("L139", "L141", g.nu, g.mudist)
L141 == Script("L141") /\ PltPlot2("L141", "L143", g.nu, g.relcorr)
L143 == Script("L143") /\ PltPlot("L143", "L149", g.freq_GHz, g.mono_radio)
L149 == Script("L149") /\ PltSavefig("L149", "L150", "figs/monopole_vs_freq.png")
L150 == Script("L150") /\ PltClf("L150", "L151")
L151 == Script("L151") /\ PltClose("L151", "done")

(*************************** direct calls **********************************)
Idle == mode = "call" /\ pc = "idle"

CallRead ==
    /\ Idle
    /\ \E c \in CallFiles, fname \in PlotNames :
        /\ disk' = [disk EXCEPT ![tucci_file_name] = c]
        /\ Call("read_tucci_source_distrib", "R17", "returned", <<>>, <<>>, fname)
    /\ UNCHANGED <<mode, dirs, loads, retval, g, plt, saved, stdout>>

CallMean ==
    /\ Idle
    /\ \E t \in AnyTables(Fluxes, Densities, MaxRows), fname \in PlotNames :
        Call("get_mean_number_of_source_over_4pi", "M51", "returned",
             column(t, 1), column(t, 2), fname)
    /\ UNCHANGED <<mode, disk, dirs, loads, retval, g, plt, saved, stdout>>

CallCumulative ==
    /\ Idle
    /\ \E t \in AnyTables(Fluxes, Densities, MaxRows), fname \in PlotNames :
        Call("get_cumulative_monopole", "C74", "returned",
             column(t, 1), column(t, 2), fname)
    /\ UNCHANGED <<mode, disk, dirs, loads, retval, g, plt, saved, stdout>>

\* line 121 on one monopole value and one frequency
CallPowerLaw ==
    /\ Idle
    /\ \E m \in (-MaxM0)..MaxM0, f \in FreqSamples :
        g' = [g EXCEPT !.monopole = m, !.freq_GHz = <<f>>, !.mono_radio = <<power_law(m, f)>>]
    /\ Goto("returned")
    /\ UNCHANGED <<mode, ret, disk, dirs, loads, frame, retval, plt, saved, stdout>>

Next ==
    \/ L93 \/ L95 \/ L95_assign \/ L96 \/ L96_assign \/ L98 \/ L104 \/ L104_assign
    \/ L106 \/ L108 \/ L112 \/ L113 \/ L114 \/ L117 \/ L126 \/ L127 \/ L128
    \/ L135 \/ L137 \/ L139 \/ L141 \/ L143 \/ L149 \/ L150 \/ L151
    \/ R17 \/ R22 \/ R26 \/ R30 \/ R31 \/ R32 \/ R34
    \/ M51 \/ M55 \/ M57 \/ M63 \/ M64 \/ M65 \/ M67
    \/ C74 \/ C79 \/ C81 \/ C85 \/ C86 \/ C87 \/ C89
    \/ CallRead \/ CallMean \/ CallCumulative \/ CallPowerLaw

Spec == Init /\ [][Next]_vars

(******************************* claims ************************************)
NonNegative(a) == \A i \in 1..Len(a) : a[i] >= 0
NonDecreasing(a) == \A i \in 1..Len(a) - 1 : a[i] <= a[i + 1]
StrictlyIncreasing(a) == \A i \in 1..Len(a) - 1 : a[i] < a[i + 1]

\* The function fn has just returned: retval is its value, frame its arguments.
Returned(fn) == frame.fn = fn /\ pc = ret

RECURSIVE SumUpTo(_, _)
SumUpTo(a, k) == IF k = 0 THEN 0 ELSE SumUpTo(a, k - 1) + a[k]

\* step_i * S_i * density_i of the active frame
Contribution(i) == frame.dS[i] * frame.S[i] * frame.dNdSdOmega[i]
Contributions == [i \in 1..Len(frame.S) |-> Contribution(i)]

\* C1 as stated: whenever get_cumulative_monopole returns on non-negative S and
\* dNdSdOmega of equal length, the returned sequence is non-decreasing.
C1_AsStated ==
    (Returned("get_cumulative_monopole")
        /\ NonNegative(frame.S) /\ NonNegative(frame.dNdSdOmega))
    => NonDecreasing(retval.a)

\* C1 amended: whenever get_cumulative_monopole returns on non-negative S and
\* dNdSdOmega of equal length with S sorted ascending (non-decreasing), the
\* returned sequence is non-decreasing.
C1_SortedNonDecreasing ==
    (Returned("get_cumulative_monopole")
        /\ NonNegative(frame.S) /\ NonNegative(frame.dNdSdOmega) /\ NonDecreasing(frame.S))
    => NonDecreasing(retval.a)

C1_Witness ==
    /\ Returned("get_cumulative_monopole")
    /\ NonNegative(frame.S) /\ NonNegative(frame.dNdSdOmega) /\ NonDecreasing(frame.S)
    /\ Len(retval.a) = 3 /\ retval.a[1] < retval.a[2] /\ retval.a[2] < retval.a[3]

\* C2: whenever get_mean_number_of_source_over_4pi returns on a strictly
\* increasing S and a non-negative dNdSdOmega, the returned sequence has the
\* length of S and every element of it is non-negative.
C2_MeanCountsNonNegative ==
    (Returned("get_mean_number_of_source_over_4pi")
        /\ StrictlyIncreasing(frame.S) /\ NonNegative(frame.dNdSdOmega))
    => (Len(retval.a) = Len(frame.S) /\ NonNegative(retval.a))

C2_Witness ==
    /\ Returned("get_mean_number_of_source_over_4pi")
    /\ StrictlyIncreasing(frame.S) /\ NonNegative(frame.dNdSdOmega)
    /\ Len(frame.S) = 3
    /\ \E i \in 1..3 : retval.a[i] = 0
    /\ \E i \in 1..3 : retval.a[i] > 0

\* C3: the value get_cumulative_monopole returns is the inclusive prefix sum of
\* the per-bin contributions step_i * S_i * density_i, and the monopole the
\* script takes from it is the sum of all of them.
C3_InclusivePrefixSum ==
    /\ Returned("get_cumulative_monopole") =>
        /\ Len(retval.a) = Len(frame.S)
        /\ \A k \in 1..Len(frame.S) : retval.a[k] = SumUpTo(Contributions, k)
    /\ (mode = "script" /\ g.freq_GHz # <<>>) =>
        g.monopole = SumUpTo(Contributions, Len(g.S))

C3_Witness ==
    /\ mode = "script" /\ pc = "done"
    /\ Len(g.S) = 3
    /\ g.monopole > g.monopole_fSmax[2]
    /\ g.monopole_fSmax[2] > g.monopole_fSmax[1]

\* C4: the step both integrators use is one-sided at the two ends of S and
\* centered inside, and on S = [1,2,3], dNdSdOmega = [1,1,1] the steps are
\* [1,1,1], the mean counts [4 pi, 4 pi, 4 pi] and the cumulative monopole
\* [1,3,6].
C4_GradientSteps ==
    /\ (frame.dS # <<>>) =>
        LET n == Len(frame.S) IN
        /\ Len(frame.dS) = n
        /\ frame.dS[1] = FP * (frame.S[2] - frame.S[1])
        /\ frame.dS[n] = FP * (frame.S[n] - frame.S[n - 1])
        /\ \A i \in 2..(n - 1) : 2 * frame.dS[i] = FP * (frame.S[i + 1] - frame.S[i - 1])
    /\ (frame.S = <<1, 2, 3>> /\ frame.dNdSdOmega = <<1, 1, 1>>) =>
        /\ (frame.dS # <<>>) => frame.dS = <<1 * FP, 1 * FP, 1 * FP>>
        /\ Returned("get_mean_number_of_source_over_4pi") =>
            retval.a = <<4 * FP, 4 * FP, 4 * FP>>
        /\ Returned("get_cumulative_monopole") =>
            retval.a = <<1 * FP, 3 * FP, 6 * FP>>

C4_Witness ==
    /\ Returned("get_cumulative_monopole")
    /\ frame.S = <<1, 2, 3>> /\ frame.dNdSdOmega = <<1, 1, 1>>
    /\ frame.plot_fname = None

\* The square of a fixed-point value, as a reduced fraction.
SquareOf(m) == RNorm(<<m * m, FP * FP>>)

\* C5: every scaled value y at frequency f is M0 * (f / f0) ** (-1/2) with
\* f0 = 148, that is y has the sign of M0 and y^2 * f = M0^2 * f0; at f = f0 it
\* is M0 and at f = 2 f0 it is M0 / sqrt(2), that is 2 y^2 = M0^2.
C5_PowerLaw ==
    \A k \in 1..Len(g.mono_radio) :
        LET y == g.mono_radio[k]
            f == g.freq_GHz[k]
        IN  /\ y.sgn = Sign(g.monopole)
            /\ RMul(y.sq, f) = RMul(SquareOf(g.monopole), <<148, 1>>)
            /\ (f = <<148, 1>>) => (y.sq = SquareOf(g.monopole))
            /\ (f = <<296, 1>>) => (RMul(y.sq, <<2, 1>>) = SquareOf(g.monopole))

C5_Witness ==
    /\ mode = "call" /\ pc = "returned"
    /\ g.monopole = 1 * FP
    /\ g.freq_GHz = << <<296, 1>> >>
    /\ g.mono_radio = << [sgn |-> 1, sq |-> <<1, 2>>] >>

\* C6 as stated: on a well-formed two-column table of n >= 1 rows
\* read_tucci_source_distrib does not fail, and what it returns is column 0
\* and column 1 of the table, in row order, with or without a plot.
C6_AsStated ==
    (/\ frame.fn = "read_tucci_source_distrib"
     /\ loads[tucci_file_name] >= 1
     /\ disk[tucci_file_name].status = "ok"
     /\ Len(disk[tucci_file_name].rows) >= 1)
    => /\ err = ""
       /\ (pc = ret) =>
            /\ Len(retval.a) = Len(disk[tucci_file_name].rows)
            /\ Len(retval.b) = Len(disk[tucci_file_name].rows)
            /\ \A i \in 1..Len(disk[tucci_file_name].rows) :
                /\ retval.a[i] = disk[tucci_file_name].rows[i][1]
                /\ retval.b[i] = disk[tucci_file_name].rows[i][2]

FivePngPaths ==
    {"figs/source_distrib_radio.png", "figs/mean_number_source.png", "figs/integrand.png",
     "figs/cumulative_monopole.png", "figs/monopole_vs_freq.png"}

\* C7 as stated: every path the script hands to savefig is one of the five
\* names with its .png extension, and a complete run has created figs/ and
\* saved exactly those five.
C7_AsStated ==
    (mode = "script") =>
        /\ \A i \in 1..Len(saved) : saved[i].path \in FivePngPaths
        /\ (pc = "done") =>
            /\ "figs" \in dirs
            /\ Len(saved) = 5
            /\ { saved[i].path : i \in 1..Len(saved) } = FivePngPaths

FileOrder == <<tucci_file_name, mu_file_name, y_file_name, relcorr_file_name>>
Position(f) == CHOOSE i \in 1..4 : FileOrder[i] = f

\* C8: once the script has tried to load an input file that is missing or
\* malformed, the run is aborted with an exception; that file was loaded once,
\* no later file was loaded, no figure is open, and the figures saved and lines
\* printed are those of the stages before the load (none before the flux
\* table, four figures and one line before a distortion table).
C8_AbortAtFailingLoad ==
    (mode = "script") =>
        /\ \A f \in Files : loads[f] <= 1
        /\ \A f \in Files :
            (loads[f] >= 1 /\ disk[f].status # "ok") =>
                /\ pc = "aborted" /\ err \in {"FileNotFoundError", "ValueError"}
                /\ \A h \in Files : Position(h) > Position(f) => loads[h] = 0
                /\ plt.figs = <<>>
                /\ Len(saved) = (IF f = tucci_file_name THEN 0 ELSE 4)
                /\ Len(stdout) = (IF f = tucci_file_name THEN 0 ELSE 1)
                /\ \A i \in 1..Len(saved) : saved[i].path # "figs/monopole_vs_freq.png"
                /\ (f = tucci_file_name) => (g = NoGlobals)

C8_Witness ==
    /\ mode = "script" /\ pc = "aborted"
    /\ disk[tucci_file_name].status = "ok"
    /\ disk[mu_file_name].status = "ok"
    /\ disk[y_file_name].status = "malformed"
    /\ loads[y_file_name] = 1
    /\ Len(saved) = 4

\* The log of figure calls is made of whole rounds figure, savefig, clf, close
\* on one figure, the last round possibly unfinished.
ScopedLog(log) ==
    \A i \in 1..Len(log) :
        /\ (log[i].op = "figure") => (i = 1 \/ log[i - 1].op = "close")
        /\ (log[i].op = "savefig") =>
            (i > 1 /\ log[i - 1] = [op |-> "figure", num |-> log[i].num])
        /\ (log[i].op = "clf") =>
            (i > 1 /\ log[i - 1] = [op |-> "savefig", num |-> log[i].num])
        /\ (log[i].op = "close") =>
            (i > 1 /\ log[i - 1] = [op |-> "clf", num |-> log[i].num])

\* C9: at most one figure is open; every figure is saved, then cleared, then
\* closed before the next one is created; no figure is open when the script
\* is done or a function has returned; a function called with
\* plot_fname = None creates no figure.
C9_ScopedFigures ==
    /\ Len(plt.figs) <= 1
    /\ ScopedLog(plt.log)
    /\ (pc = "done" \/ pc = ret) => (plt.figs = <<>>)
    /\ (pc = "done") => (Len(saved) = 5 /\ Len(plt.log) = 20)
    /\ (mode = "call" /\ frame.fn # "" /\ frame.plot_fname = None) =>
        (plt = NoPlt /\ saved = <<>>)

C9_Witness ==
    /\ mode = "script" /\ pc = "done"
    /\ Len(plt.log) = 20
    /\ plt.log[20] = [op |-> "close", num |-> 5]

\* C10 as stated: in the final figure each distortion curve, and its mirror,
\* is the value column of its file against the frequency column of that same
\* file, and the last curve is the radio-source power law on the grid.
C10_AsStated ==
    (mode = "script" /\ pc = "done") =>
        LET c == saved[5].curves
            Freq(f) == column(disk[f].rows, 1)
            Val(f) == column(disk[f].rows, 2)
        IN  /\ Len(c) = 7
            /\ c[1] = [x |-> Freq(y_file_name), y |-> Neg(Val(y_file_name))]
            /\ c[2] = [x |-> Freq(y_file_name), y |-> Val(y_file_name)]
            /\ c[3] = [x |-> Freq(mu_file_name), y |-> Neg(Val(mu_file_name))]
            /\ c[4] = [x |-> Freq(mu_file_name), y |-> Val(mu_file_name)]
            /\ c[5] = [x |-> Freq(relcorr_file_name), y |-> Neg(Val(relcorr_file_name))]
            /\ c[6] = [x |-> Freq(relcorr_file_name), y |-> Val(relcorr_file_name)]
            /\ c[7] = [x |-> g.freq_GHz, y |-> g.mono_radio]

====
